---- MODULE Spec2Model ----
(***************************************************************************)
(* Supervisor of matsuri_monitor (src/matsuri_monitor/_supervisor.py).     *)
(*                                                                         *)
(* The PeriodicCallback returned by get_scheduler() submits update() to    *)
(* the IOLoop's thread pool on every tick and does not wait for it, so     *)
(* update() calls run on executor threads, possibly several at a time.     *)
(* One update() is modelled as the sequence of its commented blocks; each  *)
(* block that ends in an I/O call is one step of the executor thread.      *)
(* Monitors run in their own processes and are modelled as an environment  *)
(* that may add chat messages to a running Monitor's report and may stop   *)
(* a Monitor at any time (completion, failure, or a terminate() request    *)
(* taking effect).                                                         *)
(*                                                                         *)
(* Five specifications share the actions:                                  *)
(*   SeqSpec   update() calls one at a time, two broadcast ids;            *)
(*   HistSpec  SeqSpec with two history variables recording what the       *)
(*             last cycle did;                                             *)
(*   Spec      update() calls overlapping on executor threads, one id;     *)
(*   ReadSpec  live_json() on the IOLoop thread in parallel with update(); *)
(*   ViewSpec  live_json() and archive_json() behind their TTL caches,     *)
(*             with a clock that ticks between update() steps.             *)
(***************************************************************************)
EXTENDS Integers, Sequences, FiniteSets, TLC

VARIABLES
    groupers,            \* self.groupers: the snapshot last applied
    live_monitors,       \* self.live_monitors: OrderedDict, as a sequence of [id, mon]
    archive_reports,     \* self.archive_reports: list of reports (by Monitor object)
    monitors,            \* the Monitor objects that exist, each with its LiveReport
    callback_running,    \* the PeriodicCallback of get_scheduler() is started
    cycle_raised,        \* some update() has ended with an exception (held by its dropped Future)
    pc,                  \* per executor thread: the block of update() it is about to run
    currently_live,      \* per executor thread: local currently_live
    currently_monitored, \* per executor thread: local currently_monitored
    visited,             \* per executor thread: ids the start/stop loops have gone through
    lj_pc,               \* live_json() on the IOLoop thread: "idle", or "iter" inside the comprehension
    lj_current,          \* the iterator's position in live_monitors (di_current), 0 at the end
    lj_acc,              \* the list the comprehension has built so far
    lj_mutated,          \* a key was added to or deleted from live_monitors since iter() (od_state moved)
    lj_before,           \* the values of live_monitors when this live_json() began
    groupers_changed,    \* history (HistSpec): the last Refresh groupers block found
                         \* new_groupers != self.groupers
    last_failure,        \* history (HistSpec): the discovery call that raised in the last
                         \* update() to end: "refresh" for jetri.update(), the id for
                         \* get_live_info(id), "none" when neither did
    clock,               \* the timer of the TTLCaches, in seconds
    live_cache,          \* the TTLCache(1, 5) of live_json: its entry, or NoEntry
    archive_cache,       \* the TTLCache(1, 30) of archive_json: its entry, or NoEntry
    request,             \* the cached view a caller is about to call: "none", "live" or "archive"
    live_response,       \* what the last call of live_json() returned
    archive_response     \* what the last call of archive_json() returned

vars == <<groupers, live_monitors, archive_reports, monitors,
          callback_running, cycle_raised, pc, currently_live, currently_monitored, visited,
          lj_pc, lj_current, lj_acc, lj_mutated, lj_before,
          groupers_changed, last_failure,
          clock, live_cache, archive_cache, request, live_response, archive_response>>

shared == <<groupers, live_monitors, archive_reports, monitors>>

locals == <<currently_live, currently_monitored, visited>>

reader == <<lj_pc, lj_current, lj_acc, lj_mutated, lj_before>>

history == <<groupers_changed, last_failure>>

views == <<clock, live_cache, archive_cache, request, live_response, archive_response>>

-----------------------------------------------------------------------------
(* Bounds of the model *)

\* Monitor objects that exist at the same time
MaxMonitors == 2
\* update() calls in progress at the same time (executor threads in use)
MaxOverlap == 2
\* terminate() calls made on one Monitor
MaxCalls == 2

(* Program constants *)

\* default of the option history-days
history_days == 7

\* the option dump-chat, switched on: with it off the raw chat dump and its
\* failure are absent and everything else is the same
dump_chat == TRUE

\* ttl of the TTLCache of live_json, in seconds
live_ttl == 5

\* ttl of the TTLCache of archive_json, in seconds
archive_ttl == 30

-----------------------------------------------------------------------------
(* Inputs *)

VideoIds == {"A", "B"}
NoId == "none"
GrouperSnapshots == {"g1", "g2"}
\* the ids discovery reports when update() calls may overlap
OverlapIds == {"A"}
\* info.start_timestamp of each broadcast, in unix seconds: get_live_info(video_id)
LiveInfo == [video_id \in VideoIds |-> IF video_id = "A" THEN 0 ELSE 1]
\* values of utcnow().timestamp(): with the retention of 7 days the cutoffs are
\* 0 and 1, so each start_timestamp of LiveInfo is met above, at and below a cutoff
Times == {604800, 604801}

\* the timer readings at which the cached views are called: for a window of
\* either ttl that began at 0, readings before, at and after its end
Instants == {0, 4, 5, 6, 30, 31}

MonitorIds == 1 .. MaxMonitors
Threads == 1 .. MaxOverlap

Range(seq) == {seq[i] : i \in DOMAIN seq}

-----------------------------------------------------------------------------
(* Monitor objects and their reports *)

NoMonitor ==
    [id |-> NoId, start_timestamp |-> 0, is_running |-> FALSE, start_calls |-> 0,
     terminate_calls |-> 0, report_len |-> 0, report_groupers |-> "g1",
     dump_writes |-> 0, finalize_calls |-> 0, file_writes |-> 0, append_calls |-> 0]

\* as NewMonitor, without the call of start()
NewMonitorNotStarted(video_id, g) ==
    [NoMonitor EXCEPT !.id = video_id, !.start_timestamp = LiveInfo[video_id], !.is_running = TRUE,
                      !.report_groupers = g]

\* report = chat.LiveReport(info); report.set_groupers(self.groupers);
\* monitor = clients.Monitor(info, report); monitor.start(current_ioloop)
NewMonitor(video_id, g) ==
    [NoMonitor EXCEPT !.id = video_id, !.start_timestamp = LiveInfo[video_id], !.is_running = TRUE,
                      !.start_calls = 1, !.report_groupers = g]

Allocated == {m \in MonitorIds : monitors[m].id # NoId}

\* the next object to be constructed
FreeMonitor == CHOOSE m \in MonitorIds \ Allocated : \A n \in MonitorIds \ Allocated : m <= n

(* OrderedDict operations on live_monitors *)

Keys(reg) == {reg[i].id : i \in DOMAIN reg}

Values(reg) == {reg[i].mon : i \in DOMAIN reg}

\* self.live_monitors[video_id], for a key of the dict
GetItem(reg, video_id) == reg[CHOOSE i \in DOMAIN reg : reg[i].id = video_id].mon

\* self.live_monitors[video_id] = monitor: an existing key keeps its position
SetItem(reg, video_id, m) ==
    IF video_id \in Keys(reg)
    THEN [i \in DOMAIN reg |-> IF reg[i].id = video_id THEN [id |-> video_id, mon |-> m] ELSE reg[i]]
    ELSE Append(reg, [id |-> video_id, mon |-> m])

-----------------------------------------------------------------------------
(* Locals of update() *)

\* as new_lives, without the difference against the tracked ids
new_lives_all(t) == currently_live[t]

new_lives(t) == currently_live[t] \ currently_monitored[t]

stopped_lives(t) == currently_monitored[t] \ currently_live[t]

\* where the loops over new_lives and stopped_lives stand once `seen` has been gone through
LoopPc(live, monitored, seen) ==
    IF (live \ monitored) \ seen # {} THEN "start"
    ELSE IF (monitored \ live) \ seen # {} THEN "stop"
    ELSE "prune"

\* A Monitor that no longer runs and that neither the registry nor the archive
\* list refers to is unreachable. The model frees such objects when an update()
\* returns or raises
Collect(mons, reg, arch) ==
    [m \in MonitorIds |->
        IF ~mons[m].is_running /\ m \notin Values(reg) \cup Range(arch)
        THEN NoMonitor ELSE mons[m]]

\* the thread leaves update(): its locals are gone
Leave(t) ==
    /\ pc' = [pc EXCEPT ![t] = "idle"]
    /\ currently_live' = [currently_live EXCEPT ![t] = {}]
    /\ currently_monitored' = [currently_monitored EXCEPT ![t] = {}]
    /\ visited' = [visited EXCEPT ![t] = {}]

\* as Raise, but the exception reaches the PeriodicCallback and stops it
RaiseStopsCallback(t, mons) ==
    /\ Leave(t)
    /\ monitors' = Collect(mons, live_monitors, archive_reports)
    /\ cycle_raised' = TRUE
    /\ callback_running' = FALSE
    /\ UNCHANGED <<groupers, live_monitors, archive_reports, reader, views>>

\* an exception leaves update(): run_in_executor stores it in the Future that
\* update_async drops; the PeriodicCallback is not told
Raise(t, mons) ==
    /\ Leave(t)
    /\ monitors' = Collect(mons, live_monitors, archive_reports)
    /\ cycle_raised' = TRUE
    /\ UNCHANGED <<groupers, live_monitors, archive_reports, callback_running, reader, views>>

\* update() goes on to its next block
Goto(t, next) ==
    /\ pc' = [pc EXCEPT ![t] = next]
    /\ UNCHANGED <<callback_running, cycle_raised>>

(* The cached views *)

\* a TTLCache(1, ttl) that holds nothing
NoEntry == [value |-> <<>>, expires |-> -1]

\* no call has returned yet
NoResponse == <<"no response">>

-----------------------------------------------------------------------------
Init ==
    /\ groupers = "g1"
    /\ live_monitors = <<>>
    /\ archive_reports = <<>>
    /\ monitors = [m \in MonitorIds |-> NoMonitor]
    /\ callback_running = FALSE
    /\ cycle_raised = FALSE
    /\ pc = [t \in Threads |-> "idle"]
    /\ currently_live = [t \in Threads |-> {}]
    /\ currently_monitored = [t \in Threads |-> {}]
    /\ visited = [t \in Threads |-> {}]
    /\ lj_pc = "idle"
    /\ lj_current = 0
    /\ lj_acc = <<>>
    /\ lj_mutated = FALSE
    /\ lj_before = <<>>
    /\ groupers_changed = FALSE
    /\ last_failure = "none"
    /\ clock = 0
    /\ live_cache = NoEntry
    /\ archive_cache = NoEntry
    /\ request = "none"
    /\ live_response = NoResponse
    /\ archive_response = NoResponse

-----------------------------------------------------------------------------
(* The scheduler *)

\* PeriodicCallback.start(), called on what get_scheduler() returns
SchedulerStart ==
    /\ ~callback_running
    /\ callback_running' = TRUE
    /\ UNCHANGED <<shared, cycle_raised, pc, locals, reader, history, views>>

\* one tick: update_async hands update() to the executor and returns
update_async(pool) ==
    /\ callback_running
    /\ \E t \in pool :
        /\ pc[t] = "idle"
        /\ \A u \in pool : pc[u] = "idle" => t <= u
        /\ pc' = [pc EXCEPT ![t] = "groupers"]
    /\ UNCHANGED <<shared, callback_running, cycle_raised, locals, reader, history, views>>

-----------------------------------------------------------------------------
(* live_json(), on the IOLoop thread *)

\* [monitor ... for monitor in self.live_monitors.values()]: the Monitor objects in order
ValueList(reg) == [i \in DOMAIN reg |-> reg[i].mon]

\* update() has made live_monitors into reg: an iteration in progress has its
\* OrderedDict change under it
Observe(reg) ==
    IF lj_pc = "iter"
    THEN /\ lj_mutated' = (lj_mutated \/ Keys(reg) # Keys(live_monitors))
         /\ UNCHANGED <<lj_pc, lj_current, lj_acc, lj_before>>
    ELSE UNCHANGED reader

\* the call evaluates self.live_monitors.values() and starts to iterate
LiveJsonBegin ==
    /\ lj_pc = "idle"
    /\ lj_pc' = "iter"
    /\ lj_current' = IF live_monitors = <<>> THEN 0 ELSE 1
    /\ lj_acc' = <<>>
    /\ lj_mutated' = FALSE
    /\ lj_before' = ValueList(live_monitors)
    /\ UNCHANGED <<shared, callback_running, cycle_raised, pc, locals, history, views>>

\* the thread leaves live_json()
LiveJsonLeave ==
    /\ lj_pc' = "idle"
    /\ lj_current' = 0
    /\ lj_acc' = <<>>
    /\ lj_mutated' = FALSE
    /\ lj_before' = <<>>
    /\ UNCHANGED <<shared, callback_running, cycle_raised, pc, locals, history, views>>

\* one element: the iterator yields the monitor at its position, whose
\* report.json() joins the list
LiveJsonNext ==
    /\ lj_pc = "iter"
    /\ lj_current # 0
    /\ ~lj_mutated
    /\ lj_acc' = Append(lj_acc, live_monitors[lj_current].mon)
    /\ lj_current' = IF lj_current < Len(live_monitors) THEN lj_current + 1 ELSE 0
    /\ UNCHANGED <<lj_pc, lj_mutated, lj_before>>
    /\ UNCHANGED <<shared, callback_running, cycle_raised, pc, locals, history, views>>

\* the iterator finds od_state moved: RuntimeError, OrderedDict mutated during iteration
LiveJsonRaises ==
    /\ lj_pc = "iter"
    /\ lj_current # 0
    /\ lj_mutated
    /\ LiveJsonLeave

\* the iterator is at its end: live_json() returns {'reports': lj_acc}
LiveJsonReturn ==
    /\ lj_pc = "iter"
    /\ lj_current = 0
    /\ LiveJsonLeave

-----------------------------------------------------------------------------
(* live_json() and archive_json() through their caches, on the IOLoop thread *)

\* monitor.report.json() / report.json(): the serialized Report
report_json(m) == [id |-> monitors[m].id, messages |-> monitors[m].report_len]

\* {'reports': [monitor.report.json() for monitor in self.live_monitors.values()]}
live_reports == [i \in DOMAIN live_monitors |-> report_json(live_monitors[i].mon)]

\* {'reports': [report.json() for report in self.archive_reports]}
archive_reports_json == [i \in DOMAIN archive_reports |-> report_json(archive_reports[i])]

\* cache[key] finds the entry and it has not expired. At the very instant of
\* expiry the outcome depends on the release of cachetools (expires < timer()
\* in one, not timer() < expires in another): both are possible
CacheHit(entry) == entry # NoEntry /\ clock <= entry.expires

\* cache[key] raises KeyError: nothing stored, or the entry has expired
CacheMiss(entry) == entry = NoEntry \/ clock >= entry.expires

\* cache[key] = v: the entry expires ttl seconds after the store
Store(v, ttl) == [value |-> v, expires |-> clock + ttl]

\* time passes
Tick ==
    /\ \E instant \in Instants :
        /\ instant > clock
        /\ clock' = instant
    /\ UNCHANGED <<shared, callback_running, cycle_raised, pc, locals, reader, history,
                   live_cache, archive_cache, request, live_response, archive_response>>

\* a caller (a request handler) is about to call one of the two views
Request(view) ==
    /\ request = "none"
    /\ request' = view
    /\ UNCHANGED <<shared, callback_running, cycle_raised, pc, locals, reader, history,
                   clock, live_cache, archive_cache, live_response, archive_response>>

\* as live_json, without the cache
live_json_uncached ==
    /\ request = "live"
    /\ live_cache' = Store(live_reports, live_ttl)
    /\ live_response' = live_reports
    /\ request' = "none"
    /\ UNCHANGED <<shared, callback_running, cycle_raised, pc, locals, reader, history,
                   clock, archive_cache, archive_response>>

\* @cached(TTLCache(1, 5)) live_json(): the stored value on a hit; on a miss the
\* method runs, its value is stored and returned. The comprehension is taken as
\* one step here: its interleaving with update() is what LiveJsonBegin to
\* LiveJsonReturn model
live_json ==
    /\ request = "live"
    /\ \/ /\ CacheHit(live_cache)
          /\ live_response' = live_cache.value
          /\ UNCHANGED live_cache
       \/ /\ CacheMiss(live_cache)
          /\ live_cache' = Store(live_reports, live_ttl)
          /\ live_response' = live_reports
    /\ request' = "none"
    /\ UNCHANGED <<shared, callback_running, cycle_raised, pc, locals, reader, history,
                   clock, archive_cache, archive_response>>

\* @cached(TTLCache(1, 30)) archive_json()
archive_json ==
    /\ request = "archive"
    /\ \/ /\ CacheHit(archive_cache)
          /\ archive_response' = archive_cache.value
          /\ UNCHANGED archive_cache
       \/ /\ CacheMiss(archive_cache)
          /\ archive_cache' = Store(archive_reports_json, archive_ttl)
          /\ archive_response' = archive_reports_json
    /\ request' = "none"
    /\ UNCHANGED <<shared, callback_running, cycle_raised, pc, locals, reader, history,
                   clock, live_cache, live_response>>

-----------------------------------------------------------------------------
(* update(), block by block *)

\* as set_groupers_all, but only for the first monitor of the registry
set_groupers_first(new_groupers) ==
    [m \in MonitorIds |->
        IF live_monitors # <<>> /\ m = live_monitors[1].mon
        THEN [monitors[m] EXCEPT !.report_groupers = new_groupers]
        ELSE monitors[m]]

\* monitor.report.set_groupers(new_groupers) for every monitor of the registry
set_groupers_all(new_groupers) ==
    [m \in MonitorIds |->
        IF m \in Values(live_monitors)
        THEN [monitors[m] EXCEPT !.report_groupers = new_groupers]
        ELSE monitors[m]]

\* Refresh groupers: the loaded snapshot is new_groupers
RefreshGroupers(t) ==
    /\ pc[t] = "groupers"
    /\ \E new_groupers \in GrouperSnapshots :
        IF new_groupers # groupers
        THEN /\ monitors' = set_groupers_all(new_groupers)
             /\ groupers' = new_groupers
        ELSE UNCHANGED <<monitors, groupers>>
    /\ Goto(t, "cleanup")
    /\ UNCHANGED <<live_monitors, archive_reports, locals, reader, views>>

\* chat.Grouper.load() raises
GrouperLoadFails(t) ==
    /\ pc[t] = "groupers"
    /\ Raise(t, monitors)

\* as swept, but every monitor goes, running or not
swept_all(reg) == SelectSeq(reg, LAMBDA e : FALSE)

\* the registry without the monitors that are not running
swept(reg) == SelectSeq(reg, LAMBDA e : monitors[e.mon].is_running)

\* Clean up terminated monitors
CleanUp(t) ==
    /\ pc[t] = "cleanup"
    /\ live_monitors' = swept(live_monitors)
    /\ Observe(live_monitors')
    /\ Goto(t, "refresh")
    /\ UNCHANGED <<groupers, archive_reports, monitors, locals, history, views>>

\* Refresh currently live list and find lives to start and terminate
RefreshLive(t, ids) ==
    /\ pc[t] = "refresh"
    /\ \E live \in SUBSET ids :
        /\ currently_live' = [currently_live EXCEPT ![t] = live]
        /\ currently_monitored' = [currently_monitored EXCEPT ![t] = Keys(live_monitors)]
        /\ Goto(t, LoopPc(live, Keys(live_monitors), {}))
    /\ UNCHANGED <<shared, visited, reader, history, views>>

\* as JetriUpdateFails, but the registry is emptied on the way out
JetriUpdateFailsClearsRegistry(t) ==
    /\ pc[t] = "refresh"
    /\ Leave(t)
    /\ live_monitors' = <<>>
    /\ monitors' = Collect(monitors, <<>>, archive_reports)
    /\ cycle_raised' = TRUE
    /\ UNCHANGED <<groupers, archive_reports, callback_running, reader, views>>

\* self.jetri.update() raises
JetriUpdateFails(t) ==
    /\ pc[t] = "refresh"
    /\ Raise(t, monitors)

\* Start new lives: one iteration of the loop
StartLive(t, video_id) ==
    /\ pc[t] = "start"
    /\ video_id \in new_lives(t) \ visited[t]
    /\ Allocated # MonitorIds
    /\ live_monitors' = SetItem(live_monitors, video_id, FreeMonitor)
    /\ monitors' = [monitors EXCEPT ![FreeMonitor] = NewMonitor(video_id, groupers)]
    /\ visited' = [visited EXCEPT ![t] = @ \cup {video_id}]
    /\ Goto(t, LoopPc(currently_live[t], currently_monitored[t], visited[t] \cup {video_id}))
    /\ Observe(live_monitors')
    /\ UNCHANGED <<groupers, archive_reports, currently_live, currently_monitored, history, views>>

\* as GetLiveInfoFails, but a Monitor that was never started is left under the key
GetLiveInfoFailsAfterInsert(t, video_id) ==
    /\ pc[t] = "start"
    /\ video_id \in new_lives(t) \ visited[t]
    /\ Allocated # MonitorIds
    /\ Leave(t)
    /\ live_monitors' = SetItem(live_monitors, video_id, FreeMonitor)
    /\ monitors' = [monitors EXCEPT ![FreeMonitor] = NewMonitorNotStarted(video_id, groupers)]
    /\ cycle_raised' = TRUE
    /\ UNCHANGED <<groupers, archive_reports, callback_running, reader, views>>

\* self.jetri.get_live_info(video_id) raises
GetLiveInfoFails(t, video_id) ==
    /\ pc[t] = "start"
    /\ video_id \in new_lives(t) \ visited[t]
    /\ Raise(t, monitors)

\* monitor.terminate()
Terminate(m) == [monitors EXCEPT ![m].terminate_calls = @ + 1]

\* with gzip.open(messages_path, 'wt') as dump_file: json.dump(messages_json, dump_file),
\* when the option dump-chat is on
DumpChat(mons, m) == IF dump_chat THEN [mons EXCEPT ![m].dump_writes = @ + 1] ELSE mons

\* report.finalize()
Finalize(mons, m) == [mons EXCEPT ![m].finalize_calls = @ + 1]

\* with gzip.open(report_path, 'wt') as report_file: json.dump(report.json(), report_file)
WriteReport(mons, m) == [mons EXCEPT ![m].file_writes = @ + 1]

\* self.archive_reports.append(report)
AppendReport(mons, m) == [mons EXCEPT ![m].append_calls = @ + 1]

\* the stop loop takes video_id next and finds its monitor in the registry
StopIteration(t, video_id) ==
    /\ pc[t] = "stop"
    /\ video_id \in stopped_lives(t) \ visited[t]
    /\ video_id \in Keys(live_monitors)
    /\ monitors[GetItem(live_monitors, video_id)].terminate_calls < MaxCalls

\* as StopLive, without the test len(report) > 0
StopLiveArchivesAlways(t, video_id) ==
    /\ StopIteration(t, video_id)
    /\ LET m == GetItem(live_monitors, video_id) IN
        /\ monitors' = AppendReport(WriteReport(Finalize(DumpChat(Terminate(m), m), m), m), m)
        /\ archive_reports' = Append(archive_reports, m)
    /\ visited' = [visited EXCEPT ![t] = @ \cup {video_id}]
    /\ Goto(t, LoopPc(currently_live[t], currently_monitored[t], visited[t] \cup {video_id}))
    /\ UNCHANGED <<groupers, live_monitors, currently_live, currently_monitored, reader, history, views>>

\* Send terminate signal to finished lives and archive their reports: one iteration
StopLive(t, video_id) ==
    /\ StopIteration(t, video_id)
    /\ LET m == GetItem(live_monitors, video_id) IN
        IF monitors[m].report_len > 0
        THEN /\ monitors' = AppendReport(WriteReport(Finalize(DumpChat(Terminate(m), m), m), m), m)
             /\ archive_reports' = Append(archive_reports, m)
        ELSE /\ monitors' = Terminate(m)
             /\ UNCHANGED archive_reports
    /\ visited' = [visited EXCEPT ![t] = @ \cup {video_id}]
    /\ Goto(t, LoopPc(currently_live[t], currently_monitored[t], visited[t] \cup {video_id}))
    /\ UNCHANGED <<groupers, live_monitors, currently_live, currently_monitored, reader, history, views>>

\* self.live_monitors[video_id] raises KeyError: another update() has swept the id
StopLiveKeyError(t, video_id) ==
    /\ pc[t] = "stop"
    /\ video_id \in stopped_lives(t) \ visited[t]
    /\ video_id \notin Keys(live_monitors)
    /\ Raise(t, monitors)

\* writing the raw chat dump raises: terminate() has been sent
DumpChatFails(t, video_id) ==
    /\ StopIteration(t, video_id)
    /\ dump_chat
    /\ LET m == GetItem(live_monitors, video_id) IN
        /\ monitors[m].report_len > 0
        /\ Raise(t, Terminate(m))

\* as WriteReportFails, but the report is appended to archive_reports before the
\* exception leaves update()
WriteReportFailsAfterAppend(t, video_id) ==
    /\ StopIteration(t, video_id)
    /\ LET m == GetItem(live_monitors, video_id) IN
        /\ monitors[m].report_len > 0
        /\ Leave(t)
        /\ archive_reports' = Append(archive_reports, m)
        /\ monitors' = AppendReport(Finalize(DumpChat(Terminate(m), m), m), m)
        /\ cycle_raised' = TRUE
        /\ UNCHANGED <<groupers, live_monitors, callback_running, reader, views>>

\* writing the report file raises: terminate() has been sent and the report finalized
WriteReportFails(t, video_id) ==
    /\ StopIteration(t, video_id)
    /\ LET m == GetItem(live_monitors, video_id) IN
        /\ monitors[m].report_len > 0
        /\ Raise(t, Finalize(DumpChat(Terminate(m), m), m))

\* timedelta(days=d).total_seconds()
total_seconds(days) == days * 86400

\* as pruned_reports, with >= for >
pruned_reports_inclusive(reports, timestamp_now) ==
    LET cutoff == timestamp_now - total_seconds(history_days)
    IN SelectSeq(reports, LAMBDA r : monitors[r].start_timestamp >= cutoff)

\* the reports prune() keeps when utcnow().timestamp() is timestamp_now
pruned_reports(reports, timestamp_now) ==
    LET cutoff == timestamp_now - total_seconds(history_days)
    IN SelectSeq(reports, LAMBDA r : monitors[r].start_timestamp > cutoff)

\* Remove old reports from memory; update() returns
Prune(t) ==
    /\ pc[t] = "prune"
    /\ \E timestamp_now \in Times :
        archive_reports' = pruned_reports(archive_reports, timestamp_now)
    /\ monitors' = Collect(monitors, live_monitors, archive_reports')
    /\ Leave(t)
    /\ UNCHANGED <<groupers, live_monitors, callback_running, cycle_raised, reader, views>>

-----------------------------------------------------------------------------
(* The Monitor processes *)

\* a running Monitor adds a chat message to its report
MonitorReceives(m) ==
    /\ monitors[m].is_running
    /\ monitors[m].report_len = 0
    /\ monitors' = [monitors EXCEPT ![m].report_len = 1]
    /\ UNCHANGED <<groupers, live_monitors, archive_reports,
                   callback_running, cycle_raised, pc, locals, reader, history, views>>

\* a Monitor stops running: it completed, failed, or obeyed terminate(); one that
\* nothing refers to any more is gone with its process
MonitorStops(m) ==
    /\ monitors[m].is_running
    /\ monitors' = IF m \in Values(live_monitors) \cup Range(archive_reports)
                   THEN [monitors EXCEPT ![m].is_running = FALSE]
                   ELSE [monitors EXCEPT ![m] = NoMonitor]
    /\ UNCHANGED <<groupers, live_monitors, archive_reports,
                   callback_running, cycle_raised, pc, locals, reader, history, views>>

-----------------------------------------------------------------------------
\* the Monitor processes
Environment ==
    \/ \E m \in MonitorIds : MonitorReceives(m)
    \/ \E m \in MonitorIds : MonitorStops(m)

\* update() calls run one at a time on one executor thread: every cycle ends
\* before the next tick
NextSeq ==
    \/ SchedulerStart
    \/ update_async({1})
    \/ RefreshGroupers(1) /\ UNCHANGED history
    \/ GrouperLoadFails(1) /\ UNCHANGED history
    \/ CleanUp(1)
    \/ RefreshLive(1, VideoIds)
    \/ JetriUpdateFails(1) /\ UNCHANGED history
    \/ \E video_id \in VideoIds : StartLive(1, video_id)
    \/ \E video_id \in VideoIds : GetLiveInfoFails(1, video_id) /\ UNCHANGED history
    \/ \E video_id \in VideoIds : StopLive(1, video_id)
    \/ \E video_id \in VideoIds : DumpChatFails(1, video_id) /\ UNCHANGED history
    \/ \E video_id \in VideoIds : WriteReportFails(1, video_id) /\ UNCHANGED history
    \/ Prune(1) /\ UNCHANGED history
    \/ Environment

SeqSpec == Init /\ [][NextSeq]_vars

\* SeqSpec with its history recorded: each step of NextSeq, and with it what
\* the step tells about the refresh block and about the end of the cycle
NextHist ==
    \/ SchedulerStart
    \/ update_async({1})
    \/ RefreshGroupers(1) /\ groupers_changed' = (groupers' # groupers) /\ UNCHANGED last_failure
    \/ GrouperLoadFails(1) /\ last_failure' = "none" /\ UNCHANGED groupers_changed
    \/ CleanUp(1)
    \/ RefreshLive(1, VideoIds)
    \/ JetriUpdateFails(1) /\ last_failure' = "refresh" /\ UNCHANGED groupers_changed
    \/ \E video_id \in VideoIds : StartLive(1, video_id)
    \/ \E video_id \in VideoIds : GetLiveInfoFails(1, video_id) /\ last_failure' = video_id
                                 /\ UNCHANGED groupers_changed
    \/ \E video_id \in VideoIds : StopLive(1, video_id)
    \/ \E video_id \in VideoIds : DumpChatFails(1, video_id) /\ last_failure' = "none"
                                 /\ UNCHANGED groupers_changed
    \/ \E video_id \in VideoIds : WriteReportFails(1, video_id) /\ last_failure' = "none"
                                 /\ UNCHANGED groupers_changed
    \/ Prune(1) /\ last_failure' = "none" /\ UNCHANGED groupers_changed
    \/ Environment

HistSpec == Init /\ [][NextHist]_vars

\* live_json() called on the IOLoop thread while update() runs on the executor
\* thread, one cycle at a time and with no I/O call failing
NextRead ==
    \/ SchedulerStart
    \/ update_async({1})
    \/ RefreshGroupers(1) /\ UNCHANGED history
    \/ CleanUp(1)
    \/ RefreshLive(1, VideoIds)
    \/ \E video_id \in VideoIds : StartLive(1, video_id)
    \/ \E video_id \in VideoIds : StopLive(1, video_id)
    \/ Prune(1) /\ UNCHANGED history
    \/ Environment
    \/ LiveJsonBegin
    \/ LiveJsonNext
    \/ LiveJsonRaises
    \/ LiveJsonReturn

ReadSpec == Init /\ [][NextRead]_vars

\* the two cached views called from the IOLoop thread between the steps of
\* update() calls that run one at a time, without failure, on one broadcast id
\* and with the grouper snapshot as stored
NextViews ==
    \/ SchedulerStart
    \/ update_async({1})
    \/ RefreshGroupers(1) /\ groupers' = groupers /\ UNCHANGED history
    \/ CleanUp(1)
    \/ RefreshLive(1, OverlapIds)
    \/ \E video_id \in VideoIds : StartLive(1, video_id)
    \/ \E video_id \in VideoIds : StopLive(1, video_id)
    \/ Prune(1) /\ UNCHANGED history
    \/ Environment
    \/ Tick
    \/ Request("live")
    \/ Request("archive")
    \/ live_json
    \/ archive_json

ViewSpec == Init /\ [][NextViews]_vars

\* update() calls on up to MaxOverlap executor threads: a tick may come while
\* earlier cycles are still running
Next ==
    \/ SchedulerStart
    \/ update_async(Threads)
    \/ \E t \in Threads : RefreshGroupers(t) /\ UNCHANGED history
    \/ \E t \in Threads : GrouperLoadFails(t) /\ UNCHANGED history
    \/ \E t \in Threads : CleanUp(t)
    \/ \E t \in Threads : RefreshLive(t, OverlapIds)
    \/ \E t \in Threads : JetriUpdateFails(t) /\ UNCHANGED history
    \/ \E t \in Threads, video_id \in VideoIds : StartLive(t, video_id)
    \/ \E t \in Threads, video_id \in VideoIds : GetLiveInfoFails(t, video_id) /\ UNCHANGED history
    \/ \E t \in Threads, video_id \in VideoIds : StopLive(t, video_id)
    \/ \E t \in Threads, video_id \in VideoIds : StopLiveKeyError(t, video_id) /\ UNCHANGED history
    \/ \E t \in Threads, video_id \in VideoIds : DumpChatFails(t, video_id) /\ UNCHANGED history
    \/ \E t \in Threads, video_id \in VideoIds : WriteReportFails(t, video_id) /\ UNCHANGED history
    \/ \E t \in Threads : Prune(t) /\ UNCHANGED history
    \/ Environment

Spec == Init /\ [][Next]_vars

-----------------------------------------------------------------------------
(* Claims *)

\* the step of thread t is the sweep
IsSweep(t) == pc[t] = "cleanup" /\ pc'[t] = "refresh"

\* the step of thread t is the discovery refresh and diff
IsDiff(t) == pc[t] = "refresh" /\ pc'[t] \in {"start", "stop", "prune"}

\* with the step, update() returns on thread t
IsReturn(t) == pc[t] = "prune" /\ pc'[t] = "idle"

\* with the step, an exception leaves the start or stop loop of update() on thread t
IsLoopRaise(t) == pc[t] \in {"start", "stop"} /\ pc'[t] = "idle"

\* C1: a non-empty Report of an id that was inserted into the registry and has
\* left the live set is eventually appended to archive_reports, also when its
\* Monitor had stopped on its own. update() archives only Reports it reaches
\* through the registry, so the claim needs: when a cycle (no cycle having
\* failed) observes the live set, every Monitor whose id is missing from it and
\* whose non-empty Report was never appended is still in the registry.
C1_LeftReportStillReachable ==
    [][\A t \in Threads, m \in MonitorIds :
        ( /\ IsDiff(t)
          /\ ~cycle_raised
          /\ monitors[m].id # NoId
          /\ monitors[m].id \notin currently_live'[t]
          /\ monitors[m].report_len > 0
          /\ monitors[m].append_calls = 0 )
        => m \in Values(live_monitors)]_vars

\* C2: when update() returns, no id of its stopped_lives is a key of
\* live_monitors any more, and no step of the cycle after the diff changes the
\* Monitor of an id that is both live and tracked.
C2_StoppedIdsLeaveRegistry ==
    [][\A t \in Threads :
        /\ IsReturn(t) => stopped_lives(t) \cap Keys(live_monitors') = {}
        /\ pc[t] \in {"start", "stop", "prune"} =>
            \A video_id \in currently_live[t] \cap currently_monitored[t] :
                video_id \in Keys(live_monitors) =>
                    /\ video_id \in Keys(live_monitors')
                    /\ GetItem(live_monitors', video_id) = GetItem(live_monitors, video_id)]_vars

\* C3: a Monitor the sweep removes from the registry with a non-empty Report has
\* that Report finalized and appended to archive_reports.
C3_SweepArchivesNonEmptyReport ==
    [][\A t \in Threads, m \in MonitorIds :
        ( /\ IsSweep(t)
          /\ m \in Values(live_monitors) \ Values(live_monitors')
          /\ monitors[m].report_len > 0 )
        => monitors'[m].finalize_calls > 0 /\ monitors'[m].append_calls > 0]_vars

\* C4: every Report is finalized at most once, appended to archive_reports at
\* most once, and its archive file is written at most once (stated for the
\* behaviours in which no cycle has failed: a failed write is not what breaks it).
C4_ArchivedAtMostOnce ==
    \A m \in MonitorIds :
        ~cycle_raised =>
            /\ monitors[m].finalize_calls <= 1
            /\ monitors[m].append_calls <= 1
            /\ monitors[m].file_writes <= 1

\* C5: at most one update() is in progress at any time.
C5_NoOverlappingCycles ==
    Cardinality({t \in Threads : pc[t] # "idle"}) <= 1

\* C6: update() never inserts a Monitor for an id that is already a key of the
\* registry, and at no time do two running Monitors exist for one id.
C6_OneMonitorPerId ==
    /\ [](\A m, n \in MonitorIds :
            (m # n /\ monitors[m].is_running /\ monitors[n].is_running)
            => monitors[m].id # monitors[n].id)
    /\ [][\A video_id \in Keys(live_monitors) :
            video_id \in Keys(live_monitors')
            => GetItem(live_monitors', video_id) = GetItem(live_monitors, video_id)]_vars

\* C7: a failure of get_live_info or of an archive write for one id does not end
\* the cycle: from its start and stop loops update() always goes on with the
\* remaining ids and then prune().
C7_LoopFailureDoesNotEndCycle ==
    [][\A t \in Threads : pc[t] \in {"start", "stop"} => ~IsLoopRaise(t)]_vars

\* C8: when the write of the chat dump or of the report file fails for a stopped
\* id (terminate() was sent, then the exception), the Report is still appended
\* to archive_reports in that cycle.
C8_AppendedDespiteWriteFailure ==
    [][\A t \in Threads, m \in MonitorIds :
        ( /\ IsLoopRaise(t)
          /\ monitors'[m].terminate_calls > monitors[m].terminate_calls )
        => /\ Len(archive_reports') = Len(archive_reports) + 1
           /\ archive_reports'[Len(archive_reports')] = m]_vars

\* C9: after an update() that ended with an exception the scheduler still
\* triggers update(): the callback is running, and a tick starts a cycle
\* whenever an executor thread is free.
C9_FailedCycleKeepsTicking ==
    cycle_raised =>
        /\ callback_running
        /\ (\E t \in Threads : pc[t] = "idle") => ENABLED update_async(Threads)

\* a cycle has failed and every executor thread runs a cycle again: the thread
\* the exception left has been given a later cycle
C9_Witness ==
    /\ cycle_raised
    /\ \A t \in Threads : pc[t] # "idle"

\* C10: a live_json() that runs in parallel with update() returns the list of
\* live_monitors as it was when the call began or as it is when the call
\* returns; it never sees the OrderedDict change under its iteration.
C10_LiveJsonReadsConsistentRegistry ==
    [][(lj_pc = "iter" /\ lj_pc' = "idle")
        => /\ lj_current = 0
           /\ lj_acc \in {lj_before, ValueList(live_monitors)}]_vars

\* C11: a cycle that found the registry empty at its diff and in which no call
\* failed leaves, when it has gone through its loops, exactly the live set as
\* the keys of live_monitors, each key with a Monitor constructed for that id
\* on which start() has been called exactly once.
C11_EmptyRegistryTracksLiveSet ==
    \A t \in Threads :
        (pc[t] = "prune" /\ currently_monitored[t] = {}) =>
            /\ Keys(live_monitors) = currently_live[t]
            /\ Len(live_monitors) = Cardinality(currently_live[t])
            /\ \A i \in DOMAIN live_monitors :
                /\ monitors[live_monitors[i].mon].id = live_monitors[i].id
                /\ monitors[live_monitors[i].mon].start_calls = 1

\* the registry was empty, discovery reported both ids, and the cycle has
\* started a Monitor for each
C11_Witness ==
    /\ pc[1] = "prune"
    /\ currently_monitored[1] = {}
    /\ currently_live[1] = VideoIds
    /\ Keys(live_monitors) = VideoIds

\* C12: the stop step that handles a Monitor whose Report is empty sends
\* terminate() and nothing else: no chat dump, no finalize(), no report file, no
\* append to archive_reports.
C12_EmptyReportNotArchived ==
    [][\A t \in Threads, m \in MonitorIds :
        ( /\ pc[t] = "stop"
          /\ monitors'[m].terminate_calls > monitors[m].terminate_calls
          /\ monitors[m].report_len = 0 )
        => /\ monitors'[m].dump_writes = monitors[m].dump_writes
           /\ monitors'[m].finalize_calls = monitors[m].finalize_calls
           /\ monitors'[m].file_writes = monitors[m].file_writes
           /\ monitors'[m].append_calls = monitors[m].append_calls
           /\ archive_reports' = archive_reports]_vars

\* the stop loop of the cycle in progress has handled a Monitor whose Report is
\* empty, and nothing was archived for it
C12_Witness ==
    \E video_id \in stopped_lives(1) \cap visited[1] :
        /\ pc[1] = "prune"
        /\ video_id \in Keys(live_monitors)
        /\ LET m == GetItem(live_monitors, video_id) IN
            /\ monitors[m].report_len = 0
            /\ monitors[m].terminate_calls = 1
            /\ monitors[m].append_calls = 0
            /\ m \notin Range(archive_reports)

\* C13: from its diff on, a cycle leaves alone every id that is both in the live
\* set and tracked: no start(), no terminate(), the same Monitor under the key,
\* nothing archived for it.
C13_StableIdsUntouched ==
    [][\A t \in Threads :
        pc[t] \in {"start", "stop", "prune"} =>
            \A video_id \in currently_live[t] \cap currently_monitored[t] :
                video_id \in Keys(live_monitors) =>
                    LET m == GetItem(live_monitors, video_id) IN
                        /\ video_id \in Keys(live_monitors')
                        /\ GetItem(live_monitors', video_id) = m
                        /\ monitors'[m].start_calls = monitors[m].start_calls
                        /\ monitors'[m].terminate_calls = monitors[m].terminate_calls
                        /\ monitors'[m].finalize_calls = monitors[m].finalize_calls
                        /\ monitors'[m].file_writes = monitors[m].file_writes
                        /\ monitors'[m].append_calls = monitors[m].append_calls
                        /\ Len(SelectSeq(archive_reports', LAMBDA r : r = m))
                            <= Len(SelectSeq(archive_reports, LAMBDA r : r = m))]_vars

\* the cycle has started or stopped another id while one id was live and tracked
C13_Witness ==
    /\ pc[1] = "prune"
    /\ visited[1] # {}
    /\ \E video_id \in currently_live[1] \cap currently_monitored[1] :
        /\ video_id \in Keys(live_monitors)
        /\ monitors[GetItem(live_monitors, video_id)].start_calls = 1
        /\ monitors[GetItem(live_monitors, video_id)].terminate_calls = 0

\* C14: the refresh block of a cycle that loads a snapshot different from the
\* stored one sets the new snapshot on the Report of every Monitor of the
\* registry, running ones included; a Monitor started later in that cycle is
\* constructed with the new snapshot, and from the end of the refresh block to
\* the end of the cycle no Report has its groupers set again.
C14_NewSnapshotReachesEveryReport ==
    /\ [][groupers' # groupers =>
            /\ pc[1] = "groupers" /\ pc'[1] = "cleanup"
            /\ \A m \in Values(live_monitors) : monitors'[m].report_groupers = groupers']_vars
    /\ [](pc[1] \in {"start", "stop", "prune"} =>
            \A video_id \in (visited[1] \cap new_lives(1)) \cap Keys(live_monitors) :
                monitors[GetItem(live_monitors, video_id)].report_groupers = groupers)
    /\ [][pc[1] \in {"cleanup", "refresh", "start", "stop", "prune"} =>
            /\ groupers' = groupers
            /\ \A m \in MonitorIds :
                (monitors[m].id # NoId /\ monitors'[m].id = monitors[m].id)
                => monitors'[m].report_groupers = monitors[m].report_groupers]_vars

\* the cycle in progress loaded a new snapshot; a running Monitor that was in
\* the registry has it, and so has the Monitor the cycle has started since
C14_Witness ==
    /\ pc[1] = "prune"
    /\ groupers_changed
    /\ groupers = "g2"
    /\ \E video_id \in (visited[1] \cap new_lives(1)) \cap Keys(live_monitors) :
        monitors[GetItem(live_monitors, video_id)].report_groupers = "g2"
    /\ \E video_id \in currently_monitored[1] \cap Keys(live_monitors) :
        /\ monitors[GetItem(live_monitors, video_id)].is_running
        /\ monitors[GetItem(live_monitors, video_id)].report_groupers = "g2"

\* C15: when prune() returns, archive_reports holds, in their order, exactly the
\* entries it held before whose start_timestamp is greater than the cutoff (the
\* clock reading of prune() minus the retention): an entry at or below the
\* cutoff is gone, an entry above it is kept.
C15_PruneKeepsNewerThanCutoff ==
    [][\A t \in Threads :
        IsReturn(t) =>
            \E timestamp_now \in Times :
                LET cutoff == timestamp_now - history_days * 24 * 60 * 60
                    kept == {i \in DOMAIN archive_reports :
                                monitors[archive_reports[i]].start_timestamp > cutoff}
                IN  /\ Len(archive_reports') = Cardinality(kept)
                    /\ \E f \in [DOMAIN archive_reports' -> kept] :
                        /\ \A i, j \in DOMAIN f : i < j => f[i] < f[j]
                        /\ \A i \in DOMAIN f : archive_reports'[i] = archive_reports[f[i]]]_vars

\* no cycle has failed, so every cycle ended with prune(): one Report that was
\* appended is no longer in archive_reports (prune() dropped it) and another
\* Report is in it (prune() kept it)
C15_Witness ==
    /\ ~cycle_raised
    /\ pc[1] = "idle"
    /\ \E m \in MonitorIds :
        /\ monitors[m].append_calls > 0
        /\ m \notin Range(archive_reports)
    /\ \E n \in Range(archive_reports) : monitors[n].start_timestamp = 1

\* the step is a call of live_json() that returns
IsLiveCall == request = "live" /\ request' = "none"

\* the step is a call of archive_json() that returns
IsArchiveCall == request = "archive" /\ request' = "none"

\* C16: a call of a cached view inside the expiry window of its cache returns
\* the value the call that opened the window returned, whatever has happened to
\* the backing collection since; the first call after the window returns the
\* value computed from the backing collection as it then is and opens a window
\* of the view's own ttl; and a call of one view leaves the cache of the other
\* and what the other last returned as they were.
C16_CachedViewsPerWindow ==
    /\ [](/\ live_cache # NoEntry => live_response = live_cache.value
          /\ archive_cache # NoEntry => archive_response = archive_cache.value)
    /\ [][/\ IsLiveCall =>
                /\ (live_cache # NoEntry /\ clock < live_cache.expires) =>
                        /\ live_response' = live_response
                        /\ live_cache' = live_cache
                /\ (live_cache = NoEntry \/ clock > live_cache.expires) =>
                        /\ live_response' = [i \in DOMAIN live_monitors |->
                                [id |-> live_monitors[i].id,
                                 messages |-> monitors[live_monitors[i].mon].report_len]]
                        /\ live_cache'.expires = clock + 5
                /\ archive_cache' = archive_cache
                /\ archive_response' = archive_response
          /\ IsArchiveCall =>
                /\ (archive_cache # NoEntry /\ clock < archive_cache.expires) =>
                        /\ archive_response' = archive_response
                        /\ archive_cache' = archive_cache
                /\ (archive_cache = NoEntry \/ clock > archive_cache.expires) =>
                        /\ archive_response' = [i \in DOMAIN archive_reports |->
                                [id |-> monitors[archive_reports[i]].id,
                                 messages |-> monitors[archive_reports[i]].report_len]]
                        /\ archive_cache'.expires = clock + 30
                /\ live_cache' = live_cache
                /\ live_response' = live_response
          /\ (live_cache' # live_cache \/ live_response' # live_response) => IsLiveCall
          /\ (archive_cache' # archive_cache \/ archive_response' # archive_response)
                => IsArchiveCall]_vars

\* the window of the archive view is open and its value, which the last call
\* returned, no longer matches archive_reports; the live view has been computed
\* since, more than its ttl after the archive view, and holds the registry as it
\* now is
C16_Witness ==
    /\ request = "none"
    /\ archive_cache # NoEntry
    /\ clock < archive_cache.expires
    /\ archive_response # archive_reports_json
    /\ live_cache # NoEntry
    /\ live_cache.expires - live_ttl > archive_cache.expires - archive_ttl + live_ttl
    /\ clock < live_cache.expires
    /\ live_response = live_reports
    /\ live_response # <<>>

\* C17: when get_live_info(id) raises, the cycle ends with no Monitor for id in
\* the registry; in the next cycle, if id is in the live set, it is in new_lives
\* again, and the start loop can take it and then inserts a started Monitor.
C17_FailedFetchRetriedNextCycle ==
    /\ [][(pc[1] = "start" /\ pc'[1] = "idle") =>
            /\ live_monitors' = live_monitors
            /\ last_failure' \in VideoIds \ Keys(live_monitors')]_vars
    /\ []((last_failure \in VideoIds /\ pc[1] \in {"start", "stop", "prune"}) =>
            /\ last_failure \in currently_live[1] => last_failure \in new_lives(1)
            /\ ( /\ pc[1] = "start"
                 /\ last_failure \in currently_live[1] \ visited[1]
                 /\ Allocated # MonitorIds )
               => ENABLED StartLive(1, last_failure)
            /\ last_failure \in visited[1] =>
                /\ last_failure \in Keys(live_monitors)
                /\ monitors[GetItem(live_monitors, last_failure)].start_calls = 1)

\* get_live_info raised for an id in the last cycle; the cycle in progress found
\* the id live again and has started its Monitor
C17_Witness ==
    /\ last_failure \in VideoIds
    /\ pc[1] \in {"stop", "prune"}
    /\ last_failure \in visited[1] \cap new_lives(1)
    /\ last_failure \in Keys(live_monitors)
    /\ monitors[GetItem(live_monitors, last_failure)].is_running

\* C18: up to and including a jetri.update() that raises, a cycle starts no
\* Monitor, terminates none and archives nothing: it changes only the groupers
\* (with the Reports' groupers) and the registry, from which it removes only
\* Monitors that are not running. The scheduler then starts the next cycle, which
\* calls jetri.update() again.
C18_FailedDiscoveryChangesNothingElse ==
    /\ [][( /\ pc[1] \in {"groupers", "cleanup", "refresh"}
            /\ pc'[1] \in {"cleanup", "refresh", "idle"}
            /\ pc'[1] # pc[1] ) =>
            /\ archive_reports' = archive_reports
            /\ \A m \in MonitorIds :
                \/ monitors'[m] = [monitors[m] EXCEPT !.report_groupers = monitors'[m].report_groupers]
                \/ /\ monitors'[m] = NoMonitor
                   /\ ~monitors[m].is_running
                   /\ m \notin Values(live_monitors') \cup Range(archive_reports')
            /\ \A i \in DOMAIN live_monitors' : \E j \in DOMAIN live_monitors :
                live_monitors'[i] = live_monitors[j]
            /\ \A j \in DOMAIN live_monitors :
                live_monitors[j].id \notin Keys(live_monitors') => ~monitors[live_monitors[j].mon].is_running
            /\ (pc[1] = "refresh" /\ pc'[1] = "idle") =>
                /\ live_monitors' = live_monitors
                /\ groupers' = groupers]_vars
    /\ [](last_failure = "refresh" =>
            /\ callback_running
            /\ pc[1] = "idle" => ENABLED update_async({1})
            /\ pc[1] = "refresh" => ENABLED RefreshLive(1, VideoIds))

\* jetri.update() raised in the last cycle, and the cycle in progress has got a
\* live set from discovery and works on it
C18_Witness ==
    /\ last_failure = "refresh"
    /\ pc[1] \in {"start", "stop"}
    /\ currently_live[1] # {}
    /\ live_monitors # <<>>

\* C19: every Report in archive_reports has had terminate() sent to its Monitor,
\* the raw chat dumped when the option is on, finalize() called and its report
\* file written, in this order and before the append; an exception in the stop
\* loop appends nothing.
C19_ArchivedAfterFinalizeAndWrite ==
    /\ [](\A m \in MonitorIds :
            /\ monitors[m].append_calls <= monitors[m].file_writes
            /\ monitors[m].file_writes <= monitors[m].finalize_calls
            /\ dump_chat => monitors[m].finalize_calls <= monitors[m].dump_writes
            /\ monitors[m].dump_writes <= monitors[m].terminate_calls
            /\ m \in Range(archive_reports) => monitors[m].append_calls > 0)
    /\ [][\A t \in Threads :
            (pc[t] = "stop" /\ IsLoopRaise(t)) => archive_reports' = archive_reports]_vars

\* one Report has been archived, and the write of another Report's file has
\* failed after finalize(): that Report is not in archive_reports
C19_Witness ==
    /\ cycle_raised
    /\ archive_reports # <<>>
    /\ \E m \in MonitorIds :
        /\ monitors[m].finalize_calls = 1
        /\ monitors[m].file_writes = 0
        /\ m \notin Range(archive_reports)

\* C20: with update() calls one at a time, a key leaves live_monitors or gets
\* another Monitor only in the sweep and only when its Monitor is not running;
\* nothing touches the registry between the sweep and the diff, and the diff
\* takes the key set as it then is for its tracked ids.
C20_OnlySweepRemovesOnlyStopped ==
    [][/\ \A video_id \in Keys(live_monitors) :
            ( \/ video_id \notin Keys(live_monitors')
              \/ GetItem(live_monitors', video_id) # GetItem(live_monitors, video_id) )
            => /\ IsSweep(1)
               /\ video_id \notin Keys(live_monitors')
               /\ ~monitors[GetItem(live_monitors, video_id)].is_running
       /\ pc[1] = "refresh" => live_monitors' = live_monitors
       /\ IsDiff(1) => currently_monitored'[1] = Keys(live_monitors)]_vars

\* the stop loop has handled an id that left the live set; its Monitor still
\* runs and is still in the registry, while the sweep of this cycle has removed
\* the Monitor of the other id, which had stopped
C20_Witness ==
    \E video_id \in stopped_lives(1) \cap visited[1] :
        /\ pc[1] = "prune"
        /\ Keys(live_monitors) = {video_id}
        /\ monitors[GetItem(live_monitors, video_id)].is_running
        /\ \E m \in MonitorIds \ Values(live_monitors) :
            /\ monitors[m].id \in VideoIds \ {video_id}
            /\ ~monitors[m].is_running

====
